---- MODULE Spec2Model ----
(***************************************************************************)
(* Model of the EcoImmo France data core:                                  *)
(*   - services/dpe_2026_calculator.py  (DPE2026Calculator)                *)
(*   - services/french_gov_data_fetcher.py (FrenchGovDataFetcher)          *)
(*                                                                         *)
(* Three specifications share the variables:                               *)
(*   SpecCalc  the calculator's pure functions applied to drawn inputs     *)
(*   Spec      the fetch / cache / retry / reconcile pipeline, one step    *)
(*             per await point of the coroutines                           *)
(*   SpecJoin  the join of cross_reference_dvf_dpe applied to drawn        *)
(*             entity lists (the state right after asyncio.gather)         *)
(***************************************************************************)
EXTENDS Integers, Sequences, FiniteSets, TLC

(***************************************************************************)
(* Bounds of the model                                                     *)
(***************************************************************************)
\* primary-energy values are multiples of 1/EnergyScale kWh EP/m2/year
EnergyScale == 2
\* largest primary-energy value drawn, in kWh EP/m2/year
MaxEnergy == 430
\* v2 - v1 of the two values classified together, in 1/EnergyScale kWh
MaxDelta == 3

(***************************************************************************)
(* Optional values: None, or Some(x)                                       *)
(***************************************************************************)
None == <<>>
Some(x) == <<x>>
IsSome(o) == o # None
Val(o) == o[1]
\* dict.get(key, default)
Get(o, default) == IF IsSome(o) THEN Val(o) ELSE default

(***************************************************************************)
(* dpe_2026_calculator.py                                                  *)
(***************************************************************************)
\* DPEClassification, in the declaration (and dict iteration) order A..G
DPEClassification == <<"A", "B", "C", "D", "E", "F", "G">>

\* position of a class on the A..G scale (1 = A = best)
ClassRank(c) == CHOOSE i \in 1..Len(DPEClassification) : DPEClassification[i] = c

\* DPE_THRESHOLDS: (min_val, max_val) in kWh; inf is float('inf')
DPE_THRESHOLDS ==
    <<[cls |-> "A", min_val |-> 0,   max_val |-> 70,  inf |-> FALSE],
      [cls |-> "B", min_val |-> 71,  max_val |-> 110, inf |-> FALSE],
      [cls |-> "C", min_val |-> 111, max_val |-> 180, inf |-> FALSE],
      [cls |-> "D", min_val |-> 181, max_val |-> 250, inf |-> FALSE],
      [cls |-> "E", min_val |-> 251, max_val |-> 330, inf |-> FALSE],
      [cls |-> "F", min_val |-> 331, max_val |-> 420, inf |-> FALSE],
      [cls |-> "G", min_val |-> 421, max_val |-> 0,   inf |-> TRUE]>>

\* min_val <= primary_energy_kwh <= max_val, the value v given in 1/scale kWh
InIntervalAt(t, v, scale) ==
    /\ t.min_val * scale <= v
    /\ (t.inf \/ v <= t.max_val * scale)

\* the same test for a value v given in 1/EnergyScale kWh
InInterval(t, v) == InIntervalAt(t, v, EnergyScale)

\* the threshold entries whose interval holds v
MatchingThresholds(v) ==
    {i \in 1..Len(DPE_THRESHOLDS) : InInterval(DPE_THRESHOLDS[i], v)}

\* the for loop of classify_energy_performance ran to its end without a return
ReachesFallback(v) == MatchingThresholds(v) = {}

\* classify_energy_performance: first matching entry in dict order, else G
classify_energy_performance(v) ==
    IF ReachesFallback(v)
    THEN "G"
    ELSE LET i == CHOOSE k \in MatchingThresholds(v) :
                      \A j \in MatchingThresholds(v) : k <= j
         IN  DPE_THRESHOLDS[i].cls

\* classify_energy_performance for a value v given in 1/scale kWh
classify_at(v, scale) ==
    LET matching == {i \in 1..Len(DPE_THRESHOLDS) :
                        InIntervalAt(DPE_THRESHOLDS[i], v, scale)}
    IN  IF matching = {}
        THEN "G"
        ELSE DPE_THRESHOLDS[CHOOSE k \in matching : \A j \in matching : k <= j].cls

(***************************************************************************)
(* dpe_2026_calculator.py: the full recalculation                          *)
(*                                                                         *)
(* Floats are exact decimals here: a share is an integer number of         *)
(* hundredths (95 is 0.95), a conversion factor an integer number of       *)
(* tenths, a consumption an integer number of kWh/m2, a surface an integer *)
(* number of m2.  A primary energy is then an integer number of 1/1000 kWh.*)
(*                                                                         *)
(* A DPE2026Result is the record of its fourteen fields.  The declaration  *)
(* of the dataclass (lines 67-94 put priority_renovations, a field without *)
(* default, after two fields with defaults, which dataclass() refuses) is  *)
(* not part of the model: the methods are modelled as they are written.    *)
(***************************************************************************)
\* ELECTRICITY_FACTOR_PRE_2026 (2.3), the factor the 2026 decree replaced
ELECTRICITY_FACTOR_PRE_2026 == 23
ELECTRICITY_FACTOR_2026 == 19
GAS_FACTOR == 10
FUEL_OIL_FACTOR == 10
WOOD_FACTOR == 6

\* 1/1000 kWh: the unit of total_final * weighted_factor
PrimaryUnit == 1000

\* RenovationUrgency
RenovationUrgency == {"compliant", "warning", "urgent", "critical"}

\* a faulty table: class D carries the ban date of class E
RENTAL_BAN_DATES_with_D == [c \in {"G", "F", "E", "D"} |->
    CASE c = "G" -> 20250101 [] c = "F" -> 20280101 [] OTHER -> 20340101]

\* RENTAL_BAN_DATES, a date as yyyymmdd
RENTAL_BAN_DATES == [c \in {"G", "F", "E"} |->
    CASE c = "G" -> 20250101 [] c = "F" -> 20280101 [] c = "E" -> 20340101]

\* the keys an other_energy_sources dict is read with; "solar" stands for any
\* key the engine has no factor for
OtherSources == {"gas", "fuel_oil", "wood", "solar"}

\* a faulty total: the auxiliary figure is left out
total_final_energy_no_auxiliary(consumption) ==
    consumption.heating_kwh + consumption.hot_water_kwh + consumption.cooling_kwh
        + consumption.lighting_kwh

\* EnergyConsumption.total_final_energy
total_final_energy(consumption) ==
    consumption.heating_kwh + consumption.hot_water_kwh + consumption.cooling_kwh
        + consumption.lighting_kwh + consumption.auxiliary_kwh

\* the term one entry of other_energy_sources adds to weighted_factor
SourceTerm(source, percentage) ==
    CASE source = "gas" -> percentage * GAS_FACTOR
      [] source = "fuel_oil" -> percentage * FUEL_OIL_FACTOR
      [] source = "wood" -> percentage * WOOD_FACTOR
      [] OTHER -> 0

\* weighted_factor, in 1/1000
weighted_factor(electricity_percentage, other_energy_sources) ==
    electricity_percentage * ELECTRICITY_FACTOR_2026
        + SourceTerm("gas", Get(other_energy_sources.gas, 0))
        + SourceTerm("fuel_oil", Get(other_energy_sources.fuel_oil, 0))
        + SourceTerm("wood", Get(other_energy_sources.wood, 0))
        + SourceTerm("solar", Get(other_energy_sources.solar, 0))

\* recalculate_with_2026_factor, in 1/1000 kWh
recalculate_with_2026_factor(consumption, electricity_percentage, other_energy_sources) ==
    total_final_energy(consumption)
        * weighted_factor(electricity_percentage, other_energy_sources)

\* a faulty urgency: the early return for non-rental properties is missing
calculate_renovation_urgency_any_tenure(classification, is_rental_property) ==
    IF classification = "G" THEN "critical"
    ELSE IF classification = "F" THEN "urgent"
    ELSE IF classification = "E" THEN "warning"
    ELSE "compliant"

\* calculate_renovation_urgency
calculate_renovation_urgency(classification, is_rental_property) ==
    IF ~is_rental_property THEN "compliant"
    ELSE IF classification = "G" THEN "critical"
    ELSE IF classification = "F" THEN "urgent"
    ELSE IF classification = "E" THEN "warning"
    ELSE "compliant"

\* ENERGY_COSTS.get(source, 0.15), in 1/10000 EUR per kWh
ENERGY_COSTS(source) ==
    CASE source = "electricity" -> 2516
      [] source = "gas" -> 1121
      [] source = "fuel_oil" -> 1450
      [] source = "wood" -> 650
      [] OTHER -> 1500

\* round(x, ndigits) of the exact value whole + n/d, to the nearest integer,
\* a tie going to the even neighbour
RoundHalfEvenFrom(whole, n, d) ==
    LET q == whole + (n \div d)
        r == n % d
    IN  IF 2 * r < d THEN q
        ELSE IF 2 * r > d THEN q + 1
        ELSE IF q % 2 = 0 THEN q ELSE q + 1

RoundHalfEven(n, d) == RoundHalfEvenFrom(0, n, d)

\* estimate_energy_costs over energy_mix = {'electricity': ..., **other}, in
\* cents; the sum is in 1/1000000 EUR before round(total_cost, 2)
estimate_energy_costs(final_energy_kwh, surface_m2, electricity_percentage, other_energy_sources) ==
    LET total_consumption == final_energy_kwh * surface_m2
        \* cost of one kWh of the mix, in 1/1000000 EUR
        cost(source, percentage) == percentage * ENERGY_COSTS(source)
        mix_cost ==
            cost("electricity", electricity_percentage)
            + cost("gas", Get(other_energy_sources.gas, 0))
            + cost("fuel_oil", Get(other_energy_sources.fuel_oil, 0))
            + cost("wood", Get(other_energy_sources.wood, 0))
            + cost("solar", Get(other_energy_sources.solar, 0))
        \* total_cost = total_consumption * mix_cost, kept within 32 bits by
        \* splitting mix_cost into cents and the rest
    IN  RoundHalfEvenFrom(total_consumption * (mix_cost \div 10000),
                          total_consumption * (mix_cost % 10000), 10000)

\* calculate_value_depreciation, in tenths of a percent
calculate_value_depreciation(classification, is_rental_property) ==
    LET base_depreciation ==
            CASE classification = "E" -> 65
              [] classification = "F" -> 120
              [] classification = "G" -> 160
              [] OTHER -> 0
    IN  IF is_rental_property /\ classification \in {"F", "G"}
        THEN RoundHalfEven(base_depreciation * 125, 100)
        ELSE base_depreciation

\* generate_renovation_priorities
generate_renovation_priorities(classification, consumption) ==
    LET priorities ==
            (IF consumption.heating_kwh > 150
             THEN <<"Isolation thermique", "Remplacement du systeme de chauffage">>
             ELSE <<>>)
            \o (IF consumption.hot_water_kwh > 50
                THEN <<"Chauffe-eau thermodynamique ou solaire">>
                ELSE <<>>)
            \o (IF classification \in {"F", "G"}
                THEN <<"Remplacement des fenetres", "Installation d'une VMC double flux">>
                ELSE <<>>)
            \o <<"Panneaux solaires photovoltaiques">>
    IN  SubSeq(priorities, 1, IF Len(priorities) < 5 THEN Len(priorities) ELSE 5)

\* int(x) of an integer product: the value itself
estimate_renovation_costs(classification, surface_m2) ==
    CASE classification = "E" -> <<150 * surface_m2, 250 * surface_m2>>
      [] classification = "F" -> <<300 * surface_m2, 500 * surface_m2>>
      [] classification = "G" -> <<500 * surface_m2, 800 * surface_m2>>
      [] OTHER -> <<0, 0>>

\* step 3 of calculate_full_dpe_2026: the passoire-thermique flag
is_passoire_thermique(recalculated_class) == recalculated_class \in {"F", "G"}

\* a faulty step 9: any rental that is not compliant asks for verification
human_verification_any_noncompliant(is_passoire, is_rental_property, urgency) ==
    is_rental_property /\ urgency # "compliant"

\* step 9 of calculate_full_dpe_2026: the human-verification flag
human_verification_required(is_passoire, is_rental_property, urgency) ==
    is_passoire /\ is_rental_property /\ urgency \in {"urgent", "critical"}

\* DPEClassification(original_dpe_class) raises ValueError
NotADPEClass(original_dpe_class) ==
    \A i \in 1..Len(DPEClassification) : DPEClassification[i] # original_dpe_class

\* calculate_full_dpe_2026 called at clock reading now by a calculator built
\* with enable_ai_transparency; args holds the seven arguments
calculate_full_dpe_2026(args, now, enable_ai_transparency) ==
    LET recalculated_primary ==
            recalculate_with_2026_factor(args.final_energy_consumption,
                                         args.electricity_percentage,
                                         args.other_energy_sources)
        recalculated_class == classify_at(recalculated_primary, PrimaryUnit)
        is_passoire == is_passoire_thermique(recalculated_class)
        urgency == calculate_renovation_urgency(recalculated_class,
                                                args.is_rental_property)
        rental_ban ==
            IF args.is_rental_property /\ recalculated_class \in DOMAIN RENTAL_BAN_DATES
            THEN Some(RENTAL_BAN_DATES[recalculated_class])
            ELSE None
        metadata ==
            [calculation_date |-> now,
             electricity_factor_used |-> ELECTRICITY_FACTOR_2026,
             confidence_level |->
                 IF args.electricity_percentage > 80 THEN "high" ELSE "medium"]
        human_verification ==
            human_verification_required(is_passoire, args.is_rental_property, urgency)
    IN  IF NotADPEClass(args.original_dpe_class)
        THEN [status |-> "raised", exc |-> "ValueError"]
        ELSE [status |-> "returned",
              original_classification |-> args.original_dpe_class,
              original_primary_energy |-> args.original_primary_energy,
              recalculated_primary_energy |-> recalculated_primary,
              recalculated_classification |-> recalculated_class,
              is_passoire_thermique |-> is_passoire,
              renovation_urgency |-> urgency,
              rental_ban_date |-> rental_ban,
              estimated_energy_cost_annual |->
                  estimate_energy_costs(
                      total_final_energy(args.final_energy_consumption),
                      args.surface_m2, args.electricity_percentage,
                      args.other_energy_sources),
              potential_value_loss_percent |->
                  calculate_value_depreciation(recalculated_class,
                                               args.is_rental_property),
              calculation_metadata |-> metadata,
              ai_transparency_badge |-> enable_ai_transparency,
              human_verification_required |-> human_verification,
              priority_renovations |->
                  generate_renovation_priorities(recalculated_class,
                                                 args.final_energy_consumption),
              estimated_renovation_cost_range |->
                  estimate_renovation_costs(recalculated_class, args.surface_m2)]

(***************************************************************************)
(* french_gov_data_fetcher.py: data                                        *)
(*                                                                         *)
(* A Python dict read with .get() is a record whose every key holds an     *)
(* optional value: None (key absent) or Some(x).  The fields of    *)
(* the pydantic models that are copied through with a default and decide   *)
(* nothing (nature_mutation, code_commune, nom_commune, type_local,        *)
(* nombre_pieces_principales; the GES and per-use DPE fields) are left out.*)
(***************************************************************************)
PostalCodes == {"75015", "75016"}

\* datetime.fromisoformat: the day of an ISO date string, 0 when it raises
\* ValueError ('' and any malformed string)
fromisoformat(s) ==
    CASE s = "2025-03-01" -> 20250301
      [] s = "2025-09-15" -> 20250915
      [] OTHER -> 0

\* a raw DVF record's 'fields' dict
RawDVF(id, date, numero, voie, cp, surface, lon, lat) ==
    [id_mutation |-> id, date_mutation |-> date, adresse_numero |-> numero,
     adresse_nom_voie |-> voie, code_postal |-> cp,
     surface_reelle_bati |-> surface, longitude |-> lon, latitude |-> lat]

\* a raw ADEME result dict
RawDPE(n, date, classe, cp, surface) ==
    [N_DPE |-> n, Date_etablissement_DPE |-> date,
     Classe_consommation_energie |-> classe, Code_postal_BAN |-> cp,
     Surface_habitable_logement |-> surface]

\* GDPRConfig
GDPRConfigs ==
    {[include_exact_addresses |-> FALSE, anonymization_level |-> "postal_code"],
     [include_exact_addresses |-> FALSE, anonymization_level |-> "commune"],
     [include_exact_addresses |-> TRUE,  anonymization_level |-> "postal_code"]}

(***************************************************************************)
(* french_gov_data_fetcher.py: pure functions                              *)
(***************************************************************************)
\* the first n elements of a list: records[:limit]
SeqsUpTo(S, n) == UNION {[1..k -> S] : k \in 0..n}

Take(seq, n) == SubSeq(seq, 1, IF Len(seq) < n THEN Len(seq) ELSE n)

\* a faulty _anonymize_address: the street name is left in place
anonymize_address_number_only(cfg, fields) ==
    IF ~cfg.include_exact_addresses
    THEN [fields EXCEPT !.adresse_numero = None]
    ELSE fields

\* _anonymize_address: pops the street fields (and, at level "commune", the
\* coordinates) unless exact addresses are kept
anonymize_address(cfg, fields) ==
    IF ~cfg.include_exact_addresses
    THEN LET f1 == [fields EXCEPT !.adresse_numero = None,
                                  !.adresse_nom_voie = None]
         IN  IF cfg.anonymization_level = "commune"
             THEN [f1 EXCEPT !.longitude = None, !.latitude = None]
             ELSE f1
    ELSE fields

\* DVFTransaction(...) raises for this dict (the record is then skipped)
DVFParseFails(fields) ==
    fromisoformat(Get(fields.date_mutation, "")) = 0

\* DVFTransaction(...) built from an (anonymized) fields dict
DVFTransaction(fields) ==
    [id_mutation |-> Get(fields.id_mutation, ""),
     date_mutation |-> fromisoformat(Get(fields.date_mutation, "")),
     adresse_numero |-> fields.adresse_numero,
     adresse_nom_voie |-> fields.adresse_nom_voie,
     code_postal |-> Get(fields.code_postal, ""),
     surface_reelle_bati |-> fields.surface_reelle_bati,
     longitude |-> fields.longitude,
     latitude |-> fields.latitude]

\* the parse loop of fetch_dvf_transactions over records[:limit]
RECURSIVE ParseDVF(_, _)
ParseDVF(cfg, records) ==
    IF records = <<>>
    THEN <<>>
    ELSE LET fields == anonymize_address(cfg, Head(records))
         IN  (IF DVFParseFails(fields) THEN <<>> ELSE <<DVFTransaction(fields)>>)
             \o ParseDVF(cfg, Tail(records))

\* DPEDiagnostic(...) raises for this dict (the record is then skipped)
DPEParseFails(result) ==
    fromisoformat(Get(result.Date_etablissement_DPE, "")) = 0

\* DPEDiagnostic(...) built from a raw result
DPEDiagnostic(result) ==
    [n_dpe |-> Get(result.N_DPE, ""),
     date_etablissement_dpe |-> fromisoformat(Get(result.Date_etablissement_DPE, "")),
     classe_consommation_energie |-> Get(result.Classe_consommation_energie, ""),
     code_postal |-> Get(result.Code_postal_BAN, ""),
     surface_habitable |-> Get(result.Surface_habitable_logement, 0)]

\* the parse loop of fetch_dpe_diagnostics over results[:limit]
RECURSIVE ParseDPE(_)
ParseDPE(results) ==
    IF results = <<>>
    THEN <<>>
    ELSE (IF DPEParseFails(Head(results)) THEN <<>> ELSE <<DPEDiagnostic(Head(results))>>)
         \o ParseDPE(Tail(results))

\* a faulty bucket: rounds to the nearest 10 (as the comment on line 480 of
\* the source words it) instead of truncating
SurfaceBucket_nearest(surface) == ((surface + 5) \div 10) * 10

\* int(surface / 10) * 10: int() truncates toward zero
SurfaceBucket(surface) ==
    IF surface >= 0 THEN (surface \div 10) * 10 ELSE -(((-surface) \div 10) * 10)

\* f"{code_postal}_{bucket}"
SurfaceKey(code_postal, surface) == <<code_postal, SurfaceBucket(surface)>>

\* the dpe_map dict: key -> the diagnostics of that key, in list order
dpe_map(diagnostics) ==
    [k \in {SurfaceKey(diagnostics[i].code_postal, diagnostics[i].surface_habitable) :
                i \in 1..Len(diagnostics)} |->
        SelectSeq(diagnostics,
                  LAMBDA d : SurfaceKey(d.code_postal, d.surface_habitable) = k)]

\* dpe_map.get(surface_key, [])
matching_dpes(map, key) == IF key \in DOMAIN map THEN map[key] ELSE <<>>

\* a faulty selection: of the Diagnostics that share the latest date, the one
\* listed last
most_recent_dpe_last_listed(matching) ==
    LET best == CHOOSE i \in 1..Len(matching) :
                    /\ \A j \in 1..Len(matching) :
                          matching[j].date_etablissement_dpe
                              <= matching[i].date_etablissement_dpe
                    /\ \A j \in (i + 1)..Len(matching) :
                          matching[j].date_etablissement_dpe
                              < matching[i].date_etablissement_dpe
    IN  matching[best]

\* max(matching_dpes, key=date): the first element holding the largest date
most_recent_dpe(matching) ==
    LET best == CHOOSE i \in 1..Len(matching) :
                    /\ \A j \in 1..Len(matching) :
                          matching[j].date_etablissement_dpe
                              <= matching[i].date_etablissement_dpe
                    /\ \A j \in 1..(i - 1) :
                          matching[j].date_etablissement_dpe
                              < matching[i].date_etablissement_dpe
    IN  matching[best]

\* a faulty skip test: "if txn.surface_reelle_bati is None: continue"
SkipsTransaction_none_only(txn) == ~IsSome(txn.surface_reelle_bati)

\* "if not txn.surface_reelle_bati: continue": None and 0.0 are both falsy
SkipsTransaction(txn) ==
    ~IsSome(txn.surface_reelle_bati) \/ Val(txn.surface_reelle_bati) = 0

\* a faulty enrichment step: a surface match is reported with confidence "high"
EnrichOne_high(map, txn) ==
    IF SkipsTransaction(txn)
    THEN <<>>
    ELSE LET found == matching_dpes(map,
                          SurfaceKey(txn.code_postal, Val(txn.surface_reelle_bati)))
         IN  IF found # <<>>
             THEN <<[transaction |-> txn, dpe |-> Some(most_recent_dpe(found)),
                     confidence |-> "high"]>>
             ELSE <<[transaction |-> txn, dpe |-> None, confidence |-> "none"]>>

\* one iteration of the enrichment loop: the entries appended for txn
EnrichOne(map, txn) ==
    IF SkipsTransaction(txn)
    THEN <<>>
    ELSE LET found == matching_dpes(map,
                          SurfaceKey(txn.code_postal, Val(txn.surface_reelle_bati)))
         IN  IF found # <<>>
             THEN <<[transaction |-> txn, dpe |-> Some(most_recent_dpe(found)),
                     confidence |-> "medium"]>>
             ELSE <<[transaction |-> txn, dpe |-> None, confidence |-> "none"]>>

\* the enrichment loop of cross_reference_dvf_dpe
RECURSIVE Enrich(_, _)
Enrich(map, transactions) ==
    IF transactions = <<>>
    THEN <<>>
    ELSE EnrichOne(map, Head(transactions)) \o Enrich(map, Tail(transactions))

\* cross_reference_dvf_dpe after asyncio.gather returned
cross_reference(transactions, diagnostics) ==
    Enrich(dpe_map(diagnostics), transactions)

(***************************************************************************)
(* french_gov_data_fetcher.py: cache keys, cache access, retry             *)
(***************************************************************************)
MAX_RETRIES == 3
\* a faulty schedule: the first delay is missing
RETRY_BACKOFF_SECONDS_from_second == <<3, 9, 27>>
RETRY_BACKOFF_SECONDS == <<1, 3, 9>>
\* limit=200 of the two fetches started by cross_reference_dvf_dpe
ReconcileLimit == 200

Sources == {"dvf", "dpe"}

\* rank of a parameter name in Python's string order (sorted(params.items()))
ParamOrder(k) ==
    CASE k = "limit" -> 1 [] k = "q" -> 2 [] k = "size" -> 3 [] k = "where" -> 4

RECURSIVE InsertItem(_, _)
InsertItem(item, sorted) ==
    IF sorted = <<>> THEN <<item>>
    ELSE IF ParamOrder(item[1]) <= ParamOrder(Head(sorted)[1])
         THEN <<item>> \o sorted
         ELSE <<Head(sorted)>> \o InsertItem(item, Tail(sorted))

\* a faulty sort: the items stay in insertion order
sorted_params_unsorted(params) == params

\* sorted(params.items())
RECURSIVE sorted_params(_)
sorted_params(params) ==
    IF params = <<>> THEN <<>>
    ELSE InsertItem(Head(params), sorted_params(Tail(params)))

\* hashlib.md5(urlencode(...)).hexdigest()[:8]: a token of the encoded
\* string, taken as collision-free
md5_8(sorted) == <<"md5", sorted>>

\* _generate_cache_key
generate_cache_key(prefix, params) == <<"ecoimmo", prefix, md5_8(sorted_params(params))>>

\* the params dict (in insertion order) fetch_dvf_transactions builds for
\* (code_postal, date_min, limit); a filter that is falsy adds no clause
dvf_params(code_postal, date_min, limit) ==
    LET where_clauses ==
            (IF code_postal # "" THEN <<<<"code_postal", "=", code_postal>>>> ELSE <<>>)
            \o (IF date_min # "" THEN <<<<"date_mutation", ">=", date_min>>>> ELSE <<>>)
    IN  <<<<"limit", limit>>>>
        \o (IF where_clauses # <<>> THEN <<<<"where", where_clauses>>>> ELSE <<>>)

\* the params dict fetch_dpe_diagnostics builds
dpe_params(code_postal, date_min, limit) ==
    LET query_parts ==
            (IF code_postal # "" THEN <<<<"Code_postal_(BAN)", ":", code_postal>>>> ELSE <<>>)
            \o (IF date_min # "" THEN <<<<"Date_etablissement_DPE", ":>=", date_min>>>> ELSE <<>>)
    IN  <<<<"size", limit>>>>
        \o (IF query_parts # <<>> THEN <<<<"q", query_parts>>>> ELSE <<>>)

\* the cache key a fetch of source s computes for a query
CacheKey(s, q) ==
    IF s = "dvf"
    THEN generate_cache_key("dvf", dvf_params(q.code_postal, q.date_min, ReconcileLimit))
    ELSE generate_cache_key("dpe", dpe_params(q.code_postal, q.date_min, ReconcileLimit))

\* a faulty serialization: only the first record is written
json_dumps_first_only(records) == [json |-> Take(records, 1)]

\* json.dumps(records).encode() and json.loads(data)
json_dumps(records) == [json |-> records]
json_loads(data) == data.json

\* what redis_client.get can answer for a key
RedisGetReplies(store, key) ==
    {[kind |-> "error", data |-> json_dumps(<<>>)]}
    \cup (IF key \in DOMAIN store
          THEN {[kind |-> "value", data |-> store[key]]}
          ELSE {[kind |-> "nil", data |-> json_dumps(<<>>)]})

\* a faulty _get_from_cache: an exception of the redis get is not caught
get_from_cache_propagates(reply) ==
    IF reply.kind = "value"
    THEN [ret |-> "data", data |-> reply.data]
    ELSE [ret |-> (IF reply.kind = "error" THEN "raise" ELSE "none"),
          data |-> reply.data]

\* _get_from_cache: the data on a hit, None on a miss and on any exception
get_from_cache(reply) ==
    IF reply.kind = "value"
    THEN [ret |-> "data", data |-> reply.data]
    ELSE [ret |-> "none", data |-> reply.data]

\* a faulty _set_to_cache: a key that is there is not overwritten (SET NX)
set_to_cache_if_absent(reply, store, key, data) ==
    IF reply = "ok" /\ key \notin DOMAIN store
    THEN [raised |-> FALSE, store |-> (key :> data) @@ store]
    ELSE [raised |-> FALSE, store |-> store]

\* _set_to_cache: setex, any exception swallowed
set_to_cache(reply, store, key, data) ==
    IF reply = "ok"
    THEN [raised |-> FALSE, store |-> (key :> data) @@ store]
    ELSE [raised |-> FALSE, store |-> store]

\* what one session.get(...) can end in: a 2xx JSON body with the envelope
\* field, a 2xx JSON body without it, raise_for_status() raising, the
\* connection being reset, the session's ClientTimeout(total=30) expiring
HttpOutcomes == {"ok", "no_envelope", "status", "reset", "timeout"}
TransportFailures == {"status", "reset", "timeout"}

\* the exception an outcome raises inside the try block
ExceptionOf(outcome) ==
    CASE outcome = "status"  -> "ClientResponseError"
      [] outcome = "reset"   -> "ClientConnectionError"
      [] outcome = "timeout" -> "TimeoutError"
      [] OTHER -> ""

\* "except aiohttp.ClientError": asyncio.TimeoutError is not a ClientError
IsClientError(exc) == exc \in {"ClientResponseError", "ClientConnectionError"}

\* one iteration of the loop of _fetch_with_retry, attempt counted from 0
RetryStep(attempt, outcome) ==
    IF outcome \notin TransportFailures
    THEN "return_data"
    ELSE IF IsClientError(ExceptionOf(outcome))
         THEN IF attempt < MAX_RETRIES - 1 THEN "sleep" ELSE "return_none"
         ELSE "raise"

\* a faulty test: "if not response", the envelope field is not looked for
InvalidResponse_transport_only(step, outcome) == step = "return_none"

\* "not response or '<field>' not in response"
InvalidResponse(step, outcome) == step = "return_none" \/ outcome = "no_envelope"

\* what upstream holds for a query: the records of the postal code asked for
UpstreamRecords(s, dataset, q) ==
    IF s = "dvf"
    THEN SelectSeq(dataset, LAMBDA r : Get(r.code_postal, "") = q.code_postal)
    ELSE SelectSeq(dataset, LAMBDA r : Get(r.Code_postal_BAN, "") = q.code_postal)

\* the parse loop of the fetch of source s
Parse(s, cfg, records) ==
    IF s = "dvf"
    THEN ParseDVF(cfg, Take(records, ReconcileLimit))
    ELSE ParseDPE(Take(records, ReconcileLimit))

(***************************************************************************)
(* Upstream fixtures and call inputs                                       *)
(***************************************************************************)
DVFRich ==
    <<RawDVF(Some("m1"), Some("2025-03-01"), Some("12"), Some("RUE LECOURBE"),
             Some("75015"), Some(64), Some(2), Some(48)),
      RawDVF(Some("m2"), Some("2025-09-15"), None, None,
             Some("75015"), None, None, None),
      RawDVF(Some("m3"), Some("n/a"), Some("7"), Some("RUE BLOMET"),
             Some("75015"), Some(71), None, None),
      RawDVF(Some("m4"), Some("2025-03-01"), Some("9"), Some("AVENUE MOZART"),
             Some("75016"), Some(71), Some(2), Some(48))>>

DPERich ==
    <<RawDPE(Some("d1"), Some("2025-03-01"), Some("F"), Some("75015"), Some(68)),
      RawDPE(Some("d2"), Some("2025-09-15"), Some("D"), Some("75015"), Some(64)),
      RawDPE(Some("d3"), None, Some("G"), Some("75015"), Some(35)),
      RawDPE(Some("d4"), Some("2025-03-01"), Some("G"), Some("75016"), Some(75))>>

\* the DVF records once a new mutation has been published
DVFLater ==
    Append(DVFRich,
           RawDVF(Some("m5"), Some("2025-09-15"), Some("3"), Some("RUE CAMBRONNE"),
                  Some("75015"), Some(64), None, None))

DVFDatasets == {DVFRich}
DPEDatasets == {DPERich}

\* (code_postal, date_min) of a reconcile call; date_min is
\* (datetime.now() - timedelta(days=date_range_days)).strftime('%Y-%m-%d')
Queries == {[code_postal |-> p, date_min |-> "2024-11-06"] : p \in {"75015"}}

\* concurrent callers of cross_reference_dvf_dpe
Callers == {1}

\* reconcile calls started in one behaviour
MaxCalls == 2
\* lengths of the entity lists drawn for the join
MaxTxns == 2
MaxDiags == 2
\* largest number of entries of a params dict
MaxParams == 3
\* largest reading of the clock
MaxClock == 2
\* largest number of records of an upstream answer drawn for the parse loop
MaxBatch == 2

VARIABLES
    cpc,        \* calculator: "ready" before the call, "classified" after
    v1, v2,     \* two primary-energy inputs, v1 <= v2, in 1/EnergyScale kWh
    class1,     \* classify_energy_performance(v1), "" before the call
    class2,     \* classify_energy_performance(v2), "" before the call
    fallback1,  \* the call for v1 returned from the fallback line
    map_out,        \* per caller: the answer of its passoire-thermique-map request
    conn,           \* the fetcher: "new", "connected" after connect(), "closed"
    gdpr_config,    \* self.gdpr_config
    dvf_upstream,   \* the records the DVF API holds (unchanged in a behaviour)
    dpe_upstream,   \* the results the ADEME API holds
    cache,          \* the Redis store: cache key -> bytes
    calls,          \* reconcile calls started so far
    pc,             \* per caller: "idle", "gather", "done", "raised"
    query,          \* per caller: the query of its call
    task,           \* per caller and source: the fetch coroutine's state
    out,            \* per caller: the list cross_reference_dvf_dpe returned
    first,          \* per query: the first output built from two obtained datasets
    kpc,            \* key generation: "ready" before the calls, "keyed" after
    key_prefix1, key_prefix2,   \* the prefix argument of two calls
    key_params1, key_params2,   \* the params dict of two calls, in insertion order
    cache_key1, cache_key2,     \* what the two calls returned, <<>> before
    epc,            \* engine: "ready", "once" after one call, "twice" after two
    clock,          \* what datetime.now() returns
    enable_ai_transparency,     \* self.enable_ai_transparency
    args,           \* the seven arguments of calculate_full_dpe_2026
    result1,        \* outcome of the first call with args
    result2,        \* outcome of the second call with args
    response        \* outcome of POST /analyze-dpe-2026 with args as its body

calcVars == <<cpc, v1, v2, class1, class2, fallback1>>
pipeVars == <<map_out, conn, gdpr_config, dvf_upstream, dpe_upstream, cache, calls, pc, query,
              task, out, first>>
keyVars == <<kpc, key_prefix1, key_prefix2, key_params1, key_params2,
             cache_key1, cache_key2>>
engVars == <<epc, clock, enable_ai_transparency, args, result1, result2, response>>
besidesPipe == <<calcVars, keyVars, engVars>>
vars == <<calcVars, pipeVars, keyVars, engVars>>

(***************************************************************************)
(* Calculator: states and steps                                            *)
(***************************************************************************)
\* non-negative: a primary energy is a sum of consumptions times factors
EnergyValues == 0..(MaxEnergy * EnergyScale)

CalcInit ==
    /\ cpc = "ready"
    /\ v1 \in EnergyValues
    /\ v2 \in {v \in EnergyValues : v1 <= v /\ v <= v1 + MaxDelta}
    /\ class1 = ""
    /\ class2 = ""
    /\ fallback1 = FALSE

CalcIdle ==
    /\ cpc = "ready"
    /\ v1 = 0
    /\ v2 = 0
    /\ class1 = ""
    /\ class2 = ""
    /\ fallback1 = FALSE

\* two calls of classify_energy_performance
Classify ==
    /\ cpc = "ready"
    /\ cpc' = "classified"
    /\ class1' = classify_energy_performance(v1)
    /\ class2' = classify_energy_performance(v2)
    /\ fallback1' = ReachesFallback(v1)
    /\ UNCHANGED <<v1, v2>>
    /\ UNCHANGED <<pipeVars, keyVars, engVars>>

(***************************************************************************)
(* Recalculation engine: states and steps                                  *)
(***************************************************************************)
\* EnergyConsumption values
Consumptions ==
    {[heating_kwh |-> h, hot_water_kwh |-> w, cooling_kwh |-> 5,
      lighting_kwh |-> 10, auxiliary_kwh |-> 15] :
        h \in {20, 100, 160, 200}, w \in {40, 60}}

NoOtherSources == [gas |-> None, fuel_oil |-> None, wood |-> None, solar |-> None]

\* (electricity_percentage, other_energy_sources) pairs, shares in hundredths
EnergyMixes ==
    {<<95, [NoOtherSources EXCEPT !.gas = Some(5)]>>,
     <<100, NoOtherSources>>,
     <<100, [NoOtherSources EXCEPT !.gas = Some(0)]>>,
     <<0, [NoOtherSources EXCEPT !.gas = Some(100)]>>,
     <<0, [NoOtherSources EXCEPT !.wood = Some(100)]>>,
     <<0, [NoOtherSources EXCEPT !.wood = Some(90), !.gas = Some(10)]>>,
     <<30, [NoOtherSources EXCEPT !.fuel_oil = Some(70)]>>,
     <<50, [NoOtherSources EXCEPT !.solar = Some(50)]>>,
     <<150, NoOtherSources>>,
     <<-10, [NoOtherSources EXCEPT !.gas = Some(110)]>>}

\* surface_m2 values
Surfaces == {-10, 0, 65}

EngineArgs ==
    {[original_dpe_class |-> oc, original_primary_energy |-> 621,
      final_energy_consumption |-> fc, electricity_percentage |-> mix[1],
      other_energy_sources |-> mix[2], surface_m2 |-> sm,
      is_rental_property |-> rental] :
        oc \in {"F", "H"}, fc \in Consumptions, mix \in EnergyMixes,
        sm \in Surfaces, rental \in BOOLEAN}

NoResult == [status |-> "none"]

EngInit ==
    /\ epc = "ready"
    /\ clock = 0
    /\ enable_ai_transparency \in BOOLEAN
    /\ args \in EngineArgs
    /\ result1 = NoResult
    /\ result2 = NoResult
    /\ response = NoResult

EngIdle ==
    /\ epc = "ready"
    /\ clock = 0
    /\ enable_ai_transparency = TRUE
    /\ args = CHOOSE a \in EngineArgs : TRUE
    /\ result1 = NoResult
    /\ result2 = NoResult
    /\ response = NoResult

\* time passes between any two steps
Tick ==
    /\ clock < MaxClock
    /\ clock' = clock + 1
    /\ UNCHANGED <<epc, enable_ai_transparency, args, result1, result2, response>>
    /\ UNCHANGED <<calcVars, pipeVars, keyVars>>

\* a first call of calculate_full_dpe_2026
CalculateFull ==
    /\ epc = "ready"
    /\ epc' = "once"
    /\ result1' = calculate_full_dpe_2026(args, clock, enable_ai_transparency)
    /\ UNCHANGED <<clock, enable_ai_transparency, args, result2, response>>
    /\ UNCHANGED <<calcVars, pipeVars, keyVars>>

\* a second call on the same calculator with the same arguments
CalculateAgain ==
    /\ epc = "once"
    /\ epc' = "twice"
    /\ result2' = calculate_full_dpe_2026(args, clock, enable_ai_transparency)
    /\ UNCHANGED <<clock, enable_ai_transparency, args, result1, response>>
    /\ UNCHANGED <<calcVars, pipeVars, keyVars>>

\* the constraints of the DPE2026AnalysisRequest fields on a body built from a
\* (gas_percentage, fuel_oil_percentage and wood_percentage default to 0)
RequestValid(a) ==
    /\ ~NotADPEClass(a.original_dpe_class)
    /\ a.original_primary_energy > 0
    /\ a.final_energy_consumption.heating_kwh >= 0
    /\ a.final_energy_consumption.hot_water_kwh >= 0
    /\ a.final_energy_consumption.cooling_kwh >= 0
    /\ a.final_energy_consumption.lighting_kwh >= 0
    /\ a.final_energy_consumption.auxiliary_kwh >= 0
    /\ a.electricity_percentage >= 0 /\ a.electricity_percentage <= 100
    /\ \A k \in {"gas", "fuel_oil", "wood"} :
          Get(a.other_energy_sources[k], 0) >= 0
              /\ Get(a.other_energy_sources[k], 0) <= 100
    /\ a.surface_m2 > 0

\* other_sources as analyze_dpe_2026 builds it: a source enters only with a
\* share above 0, and the request has no field for any other source
RequestOtherSources(a) ==
    [k \in OtherSources |->
        IF k # "solar" /\ Get(a.other_energy_sources[k], 0) > 0
        THEN a.other_energy_sources[k]
        ELSE None]

\* analyze_dpe_2026: 422 from the request model, 400 from the except clause,
\* else 200 with the fields of the result
analyze_dpe_2026(a, now) ==
    IF ~RequestValid(a)
    THEN [status |-> "422"]
    ELSE LET result ==
                 calculate_full_dpe_2026(
                     [a EXCEPT !.other_energy_sources = RequestOtherSources(a)],
                     now, TRUE)
         IN  IF result.status = "raised"
             THEN [status |-> "400"]
             ELSE [status |-> "200", body |-> result]

\* one POST /analyze-dpe-2026
AnalyzeRequest ==
    /\ response = NoResult
    /\ response' = analyze_dpe_2026(args, clock)
    /\ UNCHANGED <<epc, clock, enable_ai_transparency, args, result1, result2>>
    /\ UNCHANGED <<calcVars, pipeVars, keyVars>>

(***************************************************************************)
(* Cache keys: states and steps                                            *)
(***************************************************************************)
\* the items a params dict of the two fetches can hold
ParamItems ==
    {<<"limit", 100>>, <<"limit", 200>>, <<"size", 100>>, <<"size", 200>>,
     <<"where", "code_postal='75015'">>, <<"q", "Code_postal_(BAN):75015">>}

\* a dict holds a key once: insertion orders of items with distinct keys
ParamDicts ==
    {d \in SeqsUpTo(ParamItems, MaxParams) :
        \A i, j \in 1..Len(d) : i # j => d[i][1] # d[j][1]}

KeyInit ==
    /\ kpc = "ready"
    /\ key_prefix1 \in Sources
    /\ key_prefix2 \in Sources
    /\ key_params1 \in ParamDicts
    /\ key_params2 \in ParamDicts
    /\ cache_key1 = <<>>
    /\ cache_key2 = <<>>

KeyIdle ==
    /\ kpc = "ready"
    /\ key_prefix1 = "dvf"
    /\ key_prefix2 = "dvf"
    /\ key_params1 = <<>>
    /\ key_params2 = <<>>
    /\ cache_key1 = <<>>
    /\ cache_key2 = <<>>

\* two calls of _generate_cache_key
GenerateKeys ==
    /\ kpc = "ready"
    /\ kpc' = "keyed"
    /\ cache_key1' = generate_cache_key(key_prefix1, key_params1)
    /\ cache_key2' = generate_cache_key(key_prefix2, key_params2)
    /\ UNCHANGED <<key_prefix1, key_prefix2, key_params1, key_params2>>
    /\ UNCHANGED <<calcVars, pipeVars, engVars>>

(***************************************************************************)
(* Pipeline: states and steps                                              *)
(***************************************************************************)
\* a fetch coroutine that is not running
IdleTask ==
    [pc |-> "idle",         \* idle, cache_get, http, sleep, cache_set, done, raised
     attempt |-> 0,         \* loop variable of _fetch_with_retry
     requests |-> 0,        \* session.get calls issued
     last |-> "",           \* outcome of the latest session.get
     slept |-> <<>>,        \* the asyncio.sleep delays so far
     records |-> <<>>,      \* response['records'] / response['results']
     result |-> <<>>,       \* the returned entity list
     via |-> "",            \* hit, miss, failed (None returned), envelope
     get_err |-> FALSE,     \* redis get raised
     set_err |-> FALSE,     \* redis setex raised
     exc |-> ""]            \* the exception that left the coroutine

\* no map request answered yet
NoMap == [status |-> "none"]

NoFirst == [set |-> FALSE, out |-> <<>>, dvf_via |-> "", dpe_via |-> ""]

\* __init__ + connect(): nothing cached, nobody calling
PipeStart ==
    /\ conn = "connected"
    /\ cache = <<>>
    /\ calls = 0
    /\ pc = [c \in Callers |-> "idle"]
    /\ query = [c \in Callers |-> CHOOSE q \in Queries : q.code_postal = "75015"]
    /\ task = [c \in Callers |-> [s \in Sources |-> IdleTask]]
    /\ out = [c \in Callers |-> <<>>]
    /\ map_out = [c \in Callers |-> NoMap]
    /\ first = [q \in Queries |-> NoFirst]

PipeInit ==
    /\ gdpr_config \in GDPRConfigs
    /\ dvf_upstream \in DVFDatasets
    /\ dpe_upstream \in DPEDatasets
    /\ PipeStart

PipeIdle ==
    /\ gdpr_config = [include_exact_addresses |-> FALSE,
                      anonymization_level |-> "postal_code"]
    /\ dvf_upstream = <<>>
    /\ dpe_upstream = <<>>
    /\ PipeStart

Dataset(s) == IF s = "dvf" THEN dvf_upstream ELSE dpe_upstream

Running(t) == t.pc \in {"cache_get", "http", "sleep", "cache_set"}

\* a faulty start: without a session the fetch gives up as it does after the
\* last retry, and its caller gets an empty list
FirstAwait_empty_list(connection) ==
    IF connection = "new"
    THEN [IdleTask EXCEPT !.pc = "done", !.via = "failed"]
    ELSE [IdleTask EXCEPT !.pc = "cache_get"]

\* a fetch coroutine run to its first await.  Before connect() there is no
\* redis client, so _get_from_cache returns None at once, and no session, so
\* _fetch_with_retry raises; otherwise the coroutine waits for the redis get
FirstAwait(connection) ==
    IF connection = "new"
    THEN [IdleTask EXCEPT !.pc = "raised", !.exc = "RuntimeError"]
    ELSE [IdleTask EXCEPT !.pc = "cache_get"]

\* the coroutine is about to call session.get: on a closed session aiohttp
\* raises RuntimeError("Session is closed"), which no except clause catches
CallSessionGet(connection, t) ==
    IF connection = "closed"
    THEN [t EXCEPT !.pc = "raised", !.exc = "RuntimeError"]
    ELSE [t EXCEPT !.pc = "http"]

\* cross_reference_dvf_dpe up to asyncio.gather: both fetches are started and
\* each runs to its first await (the redis get)
StartReconcile(c, q) ==
    /\ pc[c] \in {"idle", "done", "raised"}
    /\ \A s \in Sources : ~Running(task[c][s])
    /\ calls < MaxCalls
    /\ calls' = calls + 1
    /\ pc' = [pc EXCEPT ![c] = "gather"]
    /\ query' = [query EXCEPT ![c] = q]
    /\ task' = [task EXCEPT ![c] = [s \in Sources |-> FirstAwait(conn)]]
    /\ out' = [out EXCEPT ![c] = <<>>]
    /\ UNCHANGED <<map_out, conn, gdpr_config, dvf_upstream, dpe_upstream, cache, first>>
    /\ UNCHANGED besidesPipe

\* the redis get answers: on data, json.loads and the parse loop run to the
\* return; otherwise the coroutine goes on to _fetch_with_retry
CacheGet(c, s) ==
    /\ task[c][s].pc = "cache_get"
    /\ \E reply \in RedisGetReplies(cache, CacheKey(s, query[c])) :
          LET got == get_from_cache(reply)
              t0 == [task[c][s] EXCEPT !.get_err = (reply.kind = "error")]
          IN  task' = [task EXCEPT ![c][s] =
                  CASE got.ret = "data" ->
                         [t0 EXCEPT !.pc = "done", !.via = "hit",
                                    !.result = Parse(s, gdpr_config, json_loads(got.data))]
                    [] got.ret = "none" -> CallSessionGet(conn, t0)
                    [] OTHER -> [t0 EXCEPT !.pc = "raised", !.exc = "RedisError"]]
    /\ UNCHANGED <<map_out, conn, gdpr_config, dvf_upstream, dpe_upstream, cache, calls, pc, query,
                   out, first>>
    /\ UNCHANGED besidesPipe

\* one session.get of _fetch_with_retry ends; the coroutine runs on to its
\* next await (the backoff sleep or the redis setex) or to its end
HttpAttempt(c, s) ==
    /\ task[c][s].pc = "http"
    /\ \E outcome \in HttpOutcomes :
          LET t == task[c][s]
              step == RetryStep(t.attempt, outcome)
              t0 == [t EXCEPT !.requests = @ + 1, !.last = outcome]
          IN  task' = [task EXCEPT ![c][s] =
                  CASE step = "raise" ->
                         [t0 EXCEPT !.pc = "raised", !.exc = ExceptionOf(outcome)]
                    [] step = "sleep" ->
                         [t0 EXCEPT !.pc = "sleep",
                                    !.slept = Append(@, RETRY_BACKOFF_SECONDS[t.attempt + 1])]
                    [] InvalidResponse(step, outcome) ->
                         [t0 EXCEPT !.pc = "done", !.result = <<>>,
                                    !.via = IF step = "return_none" THEN "failed"
                                                                    ELSE "envelope"]
                    [] OTHER ->
                         [t0 EXCEPT !.pc = "cache_set",
                                    !.records = UpstreamRecords(s, Dataset(s), query[c])]]
    /\ UNCHANGED <<map_out, conn, gdpr_config, dvf_upstream, dpe_upstream, cache, calls, pc, query,
                   out, first>>
    /\ UNCHANGED besidesPipe

\* asyncio.sleep(backoff) ends: the next iteration of the retry loop
Sleep(c, s) ==
    /\ task[c][s].pc = "sleep"
    /\ task' = [task EXCEPT ![c][s] =
                  CallSessionGet(conn, [task[c][s] EXCEPT !.attempt = @ + 1])]
    /\ UNCHANGED <<map_out, conn, gdpr_config, dvf_upstream, dpe_upstream, cache, calls, pc, query,
                   out, first>>
    /\ UNCHANGED besidesPipe

\* the redis setex answers; the parse loop runs and the fetch returns
CacheSet(c, s) ==
    /\ task[c][s].pc = "cache_set"
    /\ \E reply \in {"ok", "error"} :
          LET t == task[c][s]
              done == set_to_cache(reply, cache, CacheKey(s, query[c]),
                                   json_dumps(t.records))
          IN  /\ cache' = done.store
              /\ task' = [task EXCEPT ![c][s] =
                    IF done.raised
                    THEN [t EXCEPT !.pc = "raised", !.exc = "RedisError",
                                   !.set_err = TRUE]
                    ELSE [t EXCEPT !.pc = "done", !.via = "miss",
                                   !.set_err = (reply = "error"),
                                   !.result = Parse(s, gdpr_config, t.records)]]
    /\ UNCHANGED <<map_out, conn, gdpr_config, dvf_upstream, dpe_upstream, calls, pc, query, out, first>>
    /\ UNCHANGED besidesPipe

Obtained(t) == t.pc = "done" /\ t.via \in {"hit", "miss"}

\* a faulty reconcile: the join runs as soon as the Transactions are there
Join_after_transactions(c) ==
    /\ pc[c] = "gather"
    /\ task[c]["dvf"].pc = "done"
    /\ out' = [out EXCEPT ![c] =
                  cross_reference(task[c]["dvf"].result, task[c]["dpe"].result)]
    /\ pc' = [pc EXCEPT ![c] = "done"]
    /\ UNCHANGED <<map_out, conn, gdpr_config, dvf_upstream, dpe_upstream, cache, calls, query, task,
                   first>>
    /\ UNCHANGED besidesPipe

\* asyncio.gather returned both lists: the join runs to the return
Join(c) ==
    /\ pc[c] = "gather"
    /\ \A s \in Sources : task[c][s].pc = "done"
    /\ LET enriched == cross_reference(task[c]["dvf"].result, task[c]["dpe"].result)
       IN  /\ out' = [out EXCEPT ![c] = enriched]
           /\ first' =
                 IF (\A s \in Sources : Obtained(task[c][s])) /\ ~first[query[c]].set
                 THEN [first EXCEPT ![query[c]] =
                         [set |-> TRUE, out |-> enriched,
                          dvf_via |-> task[c]["dvf"].via,
                          dpe_via |-> task[c]["dpe"].via]]
                 ELSE first
    /\ pc' = [pc EXCEPT ![c] = "done"]
    /\ UNCHANGED <<map_out, conn, gdpr_config, dvf_upstream, dpe_upstream, cache, calls, query, task>>
    /\ UNCHANGED besidesPipe

\* asyncio.gather re-raises the first exception of either fetch at once; the
\* other fetch is not cancelled
GatherRaises(c) ==
    /\ pc[c] = "gather"
    /\ \E s \in Sources : task[c][s].pc = "raised"
    /\ pc' = [pc EXCEPT ![c] = "raised"]
    /\ UNCHANGED <<map_out, conn, gdpr_config, dvf_upstream, dpe_upstream, cache, calls, query, task,
                   out, first>>
    /\ UNCHANGED besidesPipe

\* the TTL given to setex runs out
Expire(key) ==
    /\ key \in DOMAIN cache
    /\ cache' = [k \in DOMAIN cache \ {key} |-> cache[k]]
    /\ UNCHANGED <<map_out, conn, gdpr_config, dvf_upstream, dpe_upstream, calls, pc, query, task,
                   out, first>>
    /\ UNCHANGED besidesPipe

(***************************************************************************)
(* Direct fetches by concurrent callers                                    *)
(***************************************************************************)
\* the requests that call one fetcher method at the same time
RaceCallers == {1, 2}

RaceInit ==
    /\ gdpr_config = [include_exact_addresses |-> FALSE,
                      anonymization_level |-> "postal_code"]
    /\ dvf_upstream = DVFRich
    /\ dpe_upstream = DPERich
    /\ conn = "connected"
    /\ cache = <<>>
    /\ calls = 0
    /\ pc = [c \in RaceCallers |-> "idle"]
    /\ query = [c \in RaceCallers |-> CHOOSE q \in Queries : q.code_postal = "75015"]
    /\ task = [c \in RaceCallers |-> [s \in Sources |-> IdleTask]]
    /\ out = [c \in RaceCallers |-> <<>>]
    /\ map_out = [c \in RaceCallers |-> NoMap]
    /\ first = [q \in Queries |-> NoFirst]

\* a caller calls fetch_dvf_transactions or fetch_dpe_diagnostics itself; the
\* coroutine runs to its first await (the redis get)
StartFetch(c, s) ==
    /\ pc[c] = "idle"
    /\ pc' = [pc EXCEPT ![c] = "fetch"]
    /\ task' = [task EXCEPT ![c][s] = FirstAwait(conn)]
    /\ UNCHANGED <<map_out, conn, gdpr_config, dvf_upstream, dpe_upstream, cache, calls, query,
                   out, first>>
    /\ UNCHANGED besidesPipe

\* the DVF API publishes a new mutation
UpstreamUpdate ==
    /\ dvf_upstream = DVFRich
    /\ dvf_upstream' = DVFLater
    /\ UNCHANGED <<map_out, conn, gdpr_config, dpe_upstream, cache, calls, pc, query, task, out, first>>
    /\ UNCHANGED besidesPipe

(***************************************************************************)
(* Specifications                                                          *)
(***************************************************************************)
InitCalc == CalcInit /\ PipeIdle /\ KeyIdle /\ EngIdle
NextCalc == Classify
SpecCalc == InitCalc /\ [][NextCalc]_vars

Init == CalcIdle /\ PipeInit /\ KeyIdle /\ EngIdle
Next ==
    \/ \E c \in Callers, q \in Queries : StartReconcile(c, q)
    \/ \E c \in Callers, s \in Sources : CacheGet(c, s)
    \/ \E c \in Callers, s \in Sources : HttpAttempt(c, s)
    \/ \E c \in Callers, s \in Sources : Sleep(c, s)
    \/ \E c \in Callers, s \in Sources : CacheSet(c, s)
    \/ \E c \in Callers : Join(c)
    \/ \E c \in Callers : GatherRaises(c)
    \/ \E key \in DOMAIN cache : Expire(key)
Spec == Init /\ [][Next]_vars

\* the entity lists asyncio.gather can hand to the join
TxnPool ==
    {[id_mutation |-> "m", date_mutation |-> 20250301,
      adresse_numero |-> None, adresse_nom_voie |-> None,
      code_postal |-> cp, surface_reelle_bati |-> surface,
      longitude |-> None, latitude |-> None] :
        cp \in PostalCodes, surface \in {None, Some(0), Some(64), Some(71)}}

DiagPool ==
    {[n_dpe |-> "d", date_etablissement_dpe |-> date,
      classe_consommation_energie |-> "F", code_postal |-> cp,
      surface_habitable |-> surface] :
        cp \in PostalCodes, surface \in {64, 68, 71}, date \in {20250301, 20250915}}

\* both fetches of a reconcile call have returned, with any lists
JoinInit ==
    /\ gdpr_config = [include_exact_addresses |-> FALSE,
                      anonymization_level |-> "postal_code"]
    /\ dvf_upstream = <<>>
    /\ dpe_upstream = <<>>
    /\ conn = "connected"
    /\ cache = <<>>
    /\ calls = 1
    /\ pc = [c \in Callers |-> "gather"]
    /\ query = [c \in Callers |-> CHOOSE q \in Queries : q.code_postal = "75015"]
    /\ \E txns \in SeqsUpTo(TxnPool, MaxTxns), diags \in SeqsUpTo(DiagPool, MaxDiags) :
          task = [c \in Callers |->
                    [s \in Sources |->
                        [IdleTask EXCEPT !.pc = "done", !.via = "miss", !.requests = 1,
                                         !.last = "ok",
                                         !.result = IF s = "dvf" THEN txns ELSE diags]]]
    /\ out = [c \in Callers |-> <<>>]
    /\ map_out = [c \in Callers |-> NoMap]
    /\ first = [q \in Queries |-> NoFirst]

InitJoin == CalcIdle /\ JoinInit /\ KeyIdle /\ EngIdle
NextJoin == \E c \in Callers : Join(c)
SpecJoin == InitJoin /\ [][NextJoin]_vars

InitEngine == CalcIdle /\ PipeIdle /\ KeyIdle /\ EngInit
NextEngine == Tick \/ CalculateFull \/ CalculateAgain \/ AnalyzeRequest
SpecEngine == InitEngine /\ [][NextEngine]_vars

InitRace == CalcIdle /\ RaceInit /\ KeyIdle /\ EngIdle
NextRace ==
    \/ \E c \in RaceCallers : StartFetch(c, "dvf")
    \/ \E c \in RaceCallers : CacheGet(c, "dvf")
    \/ \E c \in RaceCallers : HttpAttempt(c, "dvf")
    \/ \E c \in RaceCallers : Sleep(c, "dvf")
    \/ \E c \in RaceCallers : CacheSet(c, "dvf")
    \/ UpstreamUpdate
SpecRace == InitRace /\ [][NextRace]_vars

\* raw DVF 'fields' dicts an answer can carry: complete, without the
\* 'id_mutation' key, with a malformed date, without the 'date_mutation' key
RawDVFPool ==
    {RawDVF(Some("m1"), Some("2025-03-01"), Some("12"), Some("RUE LECOURBE"),
            Some("75015"), Some(64), None, None),
     RawDVF(None, Some("2025-09-15"), None, None, Some("75015"), Some(71), None, None),
     RawDVF(Some("m3"), Some("n/a"), None, None, Some("75015"), Some(71), None, None),
     RawDVF(Some("m4"), None, None, None, Some("75015"), None, None, None)}

\* raw ADEME results: complete, without the 'Surface_habitable_logement' key,
\* without the date key
RawDPEPool ==
    {RawDPE(Some("d1"), Some("2025-03-01"), Some("F"), Some("75015"), Some(68)),
     RawDPE(Some("d2"), Some("2025-09-15"), Some("D"), Some("75015"), None),
     RawDPE(Some("d3"), None, Some("G"), Some("75015"), Some(35))}

\* a connected fetcher in front of upstreams that hold any small batch
BatchInit ==
    /\ gdpr_config = [include_exact_addresses |-> FALSE,
                      anonymization_level |-> "postal_code"]
    /\ dvf_upstream \in SeqsUpTo(RawDVFPool, MaxBatch)
    /\ dpe_upstream \in SeqsUpTo(RawDPEPool, MaxBatch)
    /\ PipeStart

InitBatch == CalcIdle /\ BatchInit /\ KeyIdle /\ EngIdle
NextBatch ==
    \/ \E c \in Callers, s \in Sources : StartFetch(c, s)
    \/ \E c \in Callers, s \in Sources : CacheGet(c, s)
    \/ \E c \in Callers, s \in Sources : HttpAttempt(c, s)
    \/ \E c \in Callers, s \in Sources : Sleep(c, s)
    \/ \E c \in Callers, s \in Sources : CacheSet(c, s)
SpecBatch == InitBatch /\ [][NextBatch]_vars

\* __init__ alone: no connect() yet
LifeInit ==
    /\ gdpr_config = [include_exact_addresses |-> FALSE,
                      anonymization_level |-> "postal_code"]
    /\ dvf_upstream = DVFRich
    /\ dpe_upstream = DPERich
    /\ conn = "new"
    /\ cache = <<>>
    /\ calls = 0
    /\ pc = [c \in RaceCallers |-> "idle"]
    /\ query = [c \in RaceCallers |-> CHOOSE q \in Queries : q.code_postal = "75015"]
    /\ task = [c \in RaceCallers |-> [s \in Sources |-> IdleTask]]
    /\ out = [c \in RaceCallers |-> <<>>]
    /\ map_out = [c \in RaceCallers |-> NoMap]
    /\ first = [q \in Queries |-> NoFirst]

\* connect(): the redis client and the HTTP session are created
Connect ==
    /\ conn = "new"
    /\ conn' = "connected"
    /\ UNCHANGED <<map_out, gdpr_config, dvf_upstream, dpe_upstream, cache, calls, pc, query, task,
                   out, first>>
    /\ UNCHANGED besidesPipe

\* close(): both are closed; self.session stays set to the closed session
Close ==
    /\ conn = "connected"
    /\ conn' = "closed"
    /\ UNCHANGED <<map_out, gdpr_config, dvf_upstream, dpe_upstream, cache, calls, pc, query, task,
                   out, first>>
    /\ UNCHANGED besidesPipe

InitLife == CalcIdle /\ LifeInit /\ KeyIdle /\ EngIdle
NextLife ==
    \/ Connect
    \/ Close
    \/ \E c \in RaceCallers, s \in Sources : StartFetch(c, s)
    \/ \E c \in RaceCallers, s \in Sources : CacheGet(c, s)
    \/ \E c \in RaceCallers, s \in Sources : HttpAttempt(c, s)
    \/ \E c \in RaceCallers, s \in Sources : Sleep(c, s)
    \/ \E c \in RaceCallers, s \in Sources : CacheSet(c, s)
SpecLife == InitLife /\ [][NextLife]_vars

(***************************************************************************)
(* routers/properties.py: the passoire-thermique map                       *)
(***************************************************************************)
\* classification_counts: Diagnostics per class, others not counted
classification_counts(diagnostics) ==
    [k \in {"A", "B", "C", "D", "E", "F", "G"} |->
        Cardinality({i \in 1..Len(diagnostics) :
                        diagnostics[i].classe_consommation_energie = k})]

\* the "risk_level" expression: passoire_count / total is evaluated with no
\* test of total, so total = 0 raises ZeroDivisionError
risk_level(passoire_count, total) ==
    IF total = 0
    THEN [raised |-> TRUE, level |-> ""]
    ELSE [raised |-> FALSE,
          level |-> IF 10 * passoire_count > 3 * total THEN "high"
                    ELSE IF 100 * passoire_count > 15 * total THEN "medium"
                    ELSE "low"]

\* the body of passoire_thermique_map after the fetch; the percentage is in
\* tenths of a percent
passoire_map_response(diagnostics) ==
    LET counts == classification_counts(diagnostics)
        passoire_count == counts["F"] + counts["G"]
        total == Len(diagnostics)
        risk == risk_level(passoire_count, total)
    IN  IF risk.raised
        THEN [status |-> "raised", exc |-> "ZeroDivisionError"]
        ELSE [status |-> "returned",
              total_properties |-> total,
              passoire_thermique_count |-> passoire_count,
              passoire_percentage |->
                  IF total > 0 THEN RoundHalfEven(passoire_count * 1000, total) ELSE 0,
              classification_distribution |-> counts,
              risk_level |-> risk.level]

\* a fetcher in front of an ADEME API that holds any small batch
MapInit ==
    /\ gdpr_config = [include_exact_addresses |-> FALSE,
                      anonymization_level |-> "postal_code"]
    /\ dvf_upstream = <<>>
    /\ dpe_upstream \in SeqsUpTo(RawDPEPool, MaxBatch)
    /\ PipeStart

\* GET /passoire-thermique-map: the handler up to the first await of
\* fetch_dpe_diagnostics(code_postal, limit=500); the limit is above every
\* batch drawn here
StartMap(c) ==
    /\ pc[c] = "idle"
    /\ pc' = [pc EXCEPT ![c] = "map"]
    /\ task' = [task EXCEPT ![c]["dpe"] = FirstAwait(conn)]
    /\ UNCHANGED <<map_out, conn, gdpr_config, dvf_upstream, dpe_upstream, cache, calls,
                   query, out, first>>
    /\ UNCHANGED besidesPipe

\* the fetch has ended: its exception leaves the handler, or the handler
\* counts the classes and builds its answer
PassoireMap(c) ==
    /\ pc[c] = "map"
    /\ task[c]["dpe"].pc \in {"done", "raised"}
    /\ LET answer == IF task[c]["dpe"].pc = "raised"
                     THEN [status |-> "raised", exc |-> task[c]["dpe"].exc]
                     ELSE passoire_map_response(task[c]["dpe"].result)
       IN  /\ map_out' = [map_out EXCEPT ![c] = answer]
           /\ pc' = [pc EXCEPT ![c] = IF answer.status = "raised" THEN "raised" ELSE "done"]
    /\ UNCHANGED <<conn, gdpr_config, dvf_upstream, dpe_upstream, cache, calls, query, task,
                   out, first>>
    /\ UNCHANGED besidesPipe

InitMap == CalcIdle /\ MapInit /\ KeyIdle /\ EngIdle
NextMap ==
    \/ \E c \in Callers : StartMap(c)
    \/ \E c \in Callers : CacheGet(c, "dpe")
    \/ \E c \in Callers : HttpAttempt(c, "dpe")
    \/ \E c \in Callers : Sleep(c, "dpe")
    \/ \E c \in Callers : CacheSet(c, "dpe")
    \/ \E c \in Callers : PassoireMap(c)
SpecMap == InitMap /\ [][NextMap]_vars

InitKey == CalcIdle /\ PipeIdle /\ KeyInit /\ EngIdle
NextKey == GenerateKeys
SpecKey == InitKey /\ [][NextKey]_vars

(***************************************************************************)
(* C1, C2: classification                                                  *)
(***************************************************************************)
\* C1: classify_energy_performance is monotonic over all values, non-integer
\* ones included: for v1 <= v2 the class of v2 is never strictly better
\* (closer to A) than the class of v1.
C1_ClassifyMonotonic ==
    cpc = "classified" => ClassRank(class1) <= ClassRank(class2)

\* C2: every value v >= 0 lies inside exactly one class interval, so the
\* classification of a non-negative value never reaches the fallback branch.
C2_PartitionNoFallback ==
    (cpc = "classified" /\ v1 >= 0) =>
        /\ Cardinality(MatchingThresholds(v1)) = 1
        /\ ~fallback1

(***************************************************************************)
(* C3 .. C5: failures of upstream                                          *)
(***************************************************************************)
\* the fetch of t is over and its last session.get failed: every attempt of
\* the call failed (the loop goes on only after a failure)
UpstreamFailed(t) == t.pc \in {"done", "raised"} /\ t.last \in TransportFailures

\* C3: when every attempt of _fetch_with_retry ends in a transport-level
\* failure (timeout, connection reset or non-2xx status), the call returns a
\* failure value (None) after the final attempt and never raises.
C3_RetryReturnsFailureNeverRaises ==
    \A c \in Callers, s \in Sources :
        UpstreamFailed(task[c][s]) =>
            /\ task[c][s].exc = ""
            /\ task[c][s].via = "failed"
            /\ task[c][s].requests = MAX_RETRIES

\* C4: fetch_dvf_transactions and fetch_dpe_diagnostics return an empty list,
\* and do not raise, whenever the upstream call ultimately fails, a timed-out
\* request included.
C4_FetchReturnsEmptyOnFailure ==
    \A c \in Callers, s \in Sources :
        UpstreamFailed(task[c][s]) =>
            /\ task[c][s].pc = "done"
            /\ task[c][s].result = <<>>

\* every transaction with a null Diagnostic and confidence 'none'
AllUnmatched(transactions) ==
    [i \in 1..Len(transactions) |->
        [transaction |-> transactions[i], dpe |-> None, confidence |-> "none"]]

\* C5: if exactly one of the two sources is unavailable, reconcile still
\* returns normally: Diagnostics down gives the Transactions with a null
\* Diagnostic and confidence 'none', Transactions down gives an empty list;
\* reconcile never fails because one source is down.
C5_ReconcileSurvivesOneSourceDown ==
    \A c \in Callers :
        LET dvf == task[c]["dvf"]
            dpe == task[c]["dpe"]
        IN  /\ (UpstreamFailed(dpe) /\ Obtained(dvf)) =>
                  /\ pc[c] # "raised"
                  /\ pc[c] = "done" => out[c] = AllUnmatched(dvf.result)
            /\ (UpstreamFailed(dvf) /\ Obtained(dpe)) =>
                  /\ pc[c] # "raised"
                  /\ pc[c] = "done" => out[c] = <<>>

(***************************************************************************)
(* C6, C10: the join                                                       *)
(***************************************************************************)
\* floor(surface / 10) * 10
FloorBucket(surface) == (surface \div 10) * 10

\* some diagnostic has the postal code and the 10-unit bucket of (cp, surface)
BucketHasDiagnostic(diagnostics, cp, surface) ==
    \E j \in 1..Len(diagnostics) :
        /\ diagnostics[j].code_postal = cp
        /\ FloorBucket(diagnostics[j].surface_habitable) = FloorBucket(surface)

HasSurfaceData(txn) == IsSome(txn.surface_reelle_bati)

\* the surface is present and not 0
HasUsableSurface(txn) ==
    IsSome(txn.surface_reelle_bati) /\ Val(txn.surface_reelle_bati) # 0

\* C6 (as claimed): reconcile returns one record for every fetched
\* Transaction; a Transaction without surface data, or whose bucket has no
\* Diagnostic, appears with a null Diagnostic and confidence 'none'.
C6_OneRecordPerTransaction ==
    \A c \in Callers :
        pc[c] = "done" =>
            LET txns == task[c]["dvf"].result
                diags == task[c]["dpe"].result
            IN  /\ Len(out[c]) = Len(txns)
                /\ \A i \in 1..Len(txns) :
                      /\ out[c][i].transaction = txns[i]
                      /\ (~HasSurfaceData(txns[i])
                          \/ ~BucketHasDiagnostic(diags, txns[i].code_postal,
                                                  Val(txns[i].surface_reelle_bati)))
                         => (out[c][i].dpe = None /\ out[c][i].confidence = "none")

\* C6 (amended): reconcile returns one record, in order, for every fetched
\* Transaction whose surface is present and not 0; such a Transaction whose
\* bucket has no Diagnostic appears with a null Diagnostic and confidence
\* 'none'.  A Transaction without surface data is omitted.
C6_OneRecordPerTransactionWithSurface ==
    \A c \in Callers :
        pc[c] = "done" =>
            LET kept == SelectSeq(task[c]["dvf"].result, HasUsableSurface)
                diags == task[c]["dpe"].result
            IN  /\ Len(out[c]) = Len(kept)
                /\ \A i \in 1..Len(kept) :
                      /\ out[c][i].transaction = kept[i]
                      /\ ~BucketHasDiagnostic(diags, kept[i].code_postal,
                                              Val(kept[i].surface_reelle_bati))
                         => (out[c][i].dpe = None /\ out[c][i].confidence = "none")

\* a join over a list holding a Transaction without surface data and one
\* with a surface whose bucket has no Diagnostic
C6_Witness ==
    \E c \in Callers :
        /\ pc[c] = "done"
        /\ \E i \in 1..Len(task[c]["dvf"].result) :
              ~HasSurfaceData(task[c]["dvf"].result[i])
        /\ \E i \in 1..Len(out[c]) : out[c][i].dpe = None
        /\ Len(out[c]) < Len(task[c]["dvf"].result)

C7_NoStreetFieldsWhenAnonymized ==
    \A c \in Callers :
        (task[c]["dvf"].pc = "done" /\ ~gdpr_config.include_exact_addresses) =>
            \A i \in 1..Len(task[c]["dvf"].result) :
                /\ task[c]["dvf"].result[i].adresse_numero = None
                /\ task[c]["dvf"].result[i].adresse_nom_voie = None

\* a fetch served from the cache returned a Transaction whose source record
\* holds both street fields
C7_Witness ==
    \E c \in Callers :
        /\ task[c]["dvf"].pc = "done"
        /\ task[c]["dvf"].via = "hit"
        /\ ~gdpr_config.include_exact_addresses
        /\ \E i \in 1..Len(task[c]["dvf"].result), j \in 1..Len(dvf_upstream) :
              /\ Get(dvf_upstream[j].id_mutation, "") = task[c]["dvf"].result[i].id_mutation
              /\ IsSome(dvf_upstream[j].adresse_numero)
              /\ IsSome(dvf_upstream[j].adresse_nom_voie)

(***************************************************************************)
(* C8: cache failures                                                      *)
(***************************************************************************)
\* no cache error leaves a fetch; after a failing get the fetch went on to
\* upstream; a fetch that got a valid response returns its records
CacheErrorsSwallowed ==
    \A c \in Callers, s \in Sources :
        LET t == task[c][s]
        IN  /\ t.exc # "RedisError"
            /\ t.get_err =>
                  /\ t.via # "hit"
                  /\ t.pc = "http" \/ t.requests >= 1
            /\ (t.pc = "done" /\ t.via = "miss") =>
                  t.result = Parse(s, gdpr_config,
                                   UpstreamRecords(s, Dataset(s), query[c]))

\* a failing set leaves the store as it was
FailingSetIsNoOp ==
    \A c \in Callers, s \in Sources :
        (task[c][s].pc = "cache_set" /\ task'[c][s].pc # "cache_set"
            /\ task'[c][s].set_err)
        => cache' = cache

\* C8: any error of the cache backend during a get or a set is swallowed: a
\* failing get behaves like a miss (upstream is then called), a failing set
\* is a no-op, and the fetch still returns the records obtained from upstream.
C8_CacheErrorsNeverPropagate ==
    []CacheErrorsSwallowed /\ [][FailingSetIsNoOp]_vars

\* a fetch whose get and set both failed returned the upstream records
C8_Witness ==
    \E c \in Callers, s \in Sources :
        /\ task[c][s].pc = "done"
        /\ task[c][s].get_err
        /\ task[c][s].set_err
        /\ task[c][s].via = "miss"
        /\ Len(task[c][s].result) > 0

C11_ConfidenceFollowsDiagnostic ==
    \A c \in Callers :
        pc[c] = "done" =>
            \A i \in 1..Len(out[c]) :
                /\ out[c][i].confidence = "medium" <=> IsSome(out[c][i].dpe)
                /\ out[c][i].confidence = "none" <=> out[c][i].dpe = None
                /\ out[c][i].confidence # "high"

\* one reconcile returned a matched and an unmatched record
C11_Witness ==
    \E c \in Callers :
        /\ pc[c] = "done"
        /\ \E i, j \in 1..Len(out[c]) :
              /\ IsSome(out[c][i].dpe) /\ out[c][i].confidence = "medium"
              /\ out[c][j].dpe = None /\ out[c][j].confidence = "none"

(***************************************************************************)
(* C12: cache keys                                                         *)
(***************************************************************************)
\* the key/value pairs a params dict holds
ItemsOf(params) == {params[i] : i \in 1..Len(params)}

\* C12: _generate_cache_key returns the same key for two params dicts that
\* hold the same key/value pairs inserted in different orders, the key
\* carries the prefix it was built with, and the same parameters under "dvf"
\* and "dpe" never share a key.
C12_KeyIgnoresOrderAndCarriesPrefix ==
    kpc = "keyed" =>
        /\ (key_prefix1 = key_prefix2 /\ ItemsOf(key_params1) = ItemsOf(key_params2))
              => cache_key1 = cache_key2
        /\ cache_key1[2] = key_prefix1
        /\ cache_key2[2] = key_prefix2
        /\ key_prefix1 # key_prefix2 => cache_key1 # cache_key2

\* the same three pairs inserted in two different orders gave one key
C12_Witness ==
    /\ kpc = "keyed"
    /\ key_prefix1 = key_prefix2
    /\ Len(key_params1) = 3
    /\ key_params1 # key_params2
    /\ ItemsOf(key_params1) = ItemsOf(key_params2)
    /\ cache_key1 = cache_key2

(***************************************************************************)
(* C13 .. C19: the recalculation engine                                    *)
(***************************************************************************)
\* the first call has returned a result
Returned == epc # "ready" /\ result1.status = "returned"

\* a share of the mix outside [0, 1], or a surface that is not positive
OutOfRangeInput(a) ==
    \/ a.electricity_percentage < 0 \/ a.electricity_percentage > 100
    \/ \E k \in OtherSources :
          Get(a.other_energy_sources[k], 0) < 0
              \/ Get(a.other_energy_sources[k], 0) > 100
    \/ a.surface_m2 <= 0

\* C13: calculate_full_dpe_2026 called with an energy share outside [0,1] or
\* with a non-positive surface returns an error and never a result.
C13_InvalidInputRejected ==
    (epc # "ready" /\ OutOfRangeInput(args)) => result1.status = "raised"

\* the arguments of the scenario of the __main__ block, for either tenure
ScenarioArgs(a) ==
    /\ a.final_energy_consumption =
          [heating_kwh |-> 200, hot_water_kwh |-> 40, cooling_kwh |-> 5,
           lighting_kwh |-> 10, auxiliary_kwh |-> 15]
    /\ a.electricity_percentage = 95
    /\ a.other_energy_sources = [NoOtherSources EXCEPT !.gas = Some(5)]

\* what C14 says of the scenario, but for the recalculated energy
ScenarioOutcome ==
    /\ total_final_energy(args.final_energy_consumption) = 270
    /\ weighted_factor(args.electricity_percentage, args.other_energy_sources) = 1855
    /\ result1.recalculated_classification = "G"
    /\ result1.is_passoire_thermique
    /\ args.is_rental_property =>
          /\ result1.renovation_urgency = "critical"
          /\ result1.rental_ban_date = Some(20250101)

\* C14 (as claimed): for consumption {200, 40, 5, 10, 15} and mix
\* {electricity 0.95, gas 0.05} the engine computes weighted factor 1.855 and
\* recalculated energy 501.85, class G, passoire thermique, and for a rental
\* urgency critical and ban date 2025-01-01.
C14_ScenarioAsClaimed ==
    (Returned /\ ScenarioArgs(args)) =>
        /\ ScenarioOutcome
        /\ result1.recalculated_primary_energy = 501850

\* C14 (amended): the same, with recalculated energy 270 * 1.855 = 500.85.
C14_Scenario ==
    (Returned /\ ScenarioArgs(args)) =>
        /\ ScenarioOutcome
        /\ result1.recalculated_primary_energy = 500850

\* the scenario was computed for a rental property
C14_Witness ==
    /\ Returned
    /\ ScenarioArgs(args)
    /\ args.is_rental_property
    /\ result1.rental_ban_date = Some(20250101)

\* the five per-use figures, summed
SumOfFigures(c) ==
    c.heating_kwh + c.hot_water_kwh + c.cooling_kwh + c.lighting_kwh + c.auxiliary_kwh

\* C15: when the electricity share is 1.0 and every other share is 0 or
\* absent, the recalculated primary energy is total_final_energy * 1.9, the
\* total being the sum of the five per-use figures.
C15_AllElectricIdentity ==
    (/\ Returned
     /\ args.electricity_percentage = 100
     /\ \A k \in OtherSources : Get(args.other_energy_sources[k], 0) = 0)
        => result1.recalculated_primary_energy
              = SumOfFigures(args.final_energy_consumption) * 1900

\* an all-electric mix with an explicit gas share of 0 was recalculated
C15_Witness ==
    /\ Returned
    /\ args.electricity_percentage = 100
    /\ args.other_energy_sources.gas = Some(0)
    /\ result1.recalculated_primary_energy
          = SumOfFigures(args.final_energy_consumption) * 1900

\* C16: the rental-ban date of a result is non-null if and only if the
\* property is a rental and its recalculated class is E, F or G; it is
\* 2025-01-01 for G, 2028-01-01 for F, 2034-01-01 for E (increasing in that
\* order), and null for A-D and for every non-rental property.
C16_RentalBanDate ==
    Returned =>
        LET cls == result1.recalculated_classification
            ban == result1.rental_ban_date
        IN  /\ IsSome(ban) <=> (args.is_rental_property /\ cls \in {"E", "F", "G"})
            /\ (args.is_rental_property /\ cls = "G") => ban = Some(20250101)
            /\ (args.is_rental_property /\ cls = "F") => ban = Some(20280101)
            /\ (args.is_rental_property /\ cls = "E") => ban = Some(20340101)
            /\ 20250101 < 20280101 /\ 20280101 < 20340101

\* a rental of recalculated class F got the 2028 date
C16_Witness ==
    /\ Returned
    /\ args.is_rental_property
    /\ result1.recalculated_classification = "F"
    /\ result1.rental_ban_date = Some(20280101)

\* C17: urgency is compliant for every non-rental property; for a rental it
\* is critical for G, urgent for F, warning for E and compliant for A-D, and
\* it follows the recalculated class, not the original one.
C17_Urgency ==
    Returned =>
        LET cls == result1.recalculated_classification
        IN  result1.renovation_urgency =
                IF ~args.is_rental_property THEN "compliant"
                ELSE CASE cls = "G" -> "critical"
                       [] cls = "F" -> "urgent"
                       [] cls = "E" -> "warning"
                       [] OTHER -> "compliant"

\* a rental whose original class F would be urgent is compliant, its
\* recalculated class being one of A-D
C17_Witness ==
    /\ Returned
    /\ args.is_rental_property
    /\ result1.original_classification = "F"
    /\ result1.recalculated_classification \in {"A", "B", "C", "D"}
    /\ result1.renovation_urgency = "compliant"

\* C18: human_verification_required is true if and only if the property is
\* passoire thermique (recalculated class F or G), a rental, and at urgent or
\* critical urgency; it is false for every non-rental property and for every
\* rental of class A-E.
C18_HumanVerification ==
    Returned =>
        LET cls == result1.recalculated_classification
        IN  /\ result1.is_passoire_thermique <=> cls \in {"F", "G"}
            /\ result1.human_verification_required
                  <=> (/\ result1.is_passoire_thermique
                       /\ args.is_rental_property
                       /\ result1.renovation_urgency \in {"urgent", "critical"})
            /\ ~args.is_rental_property => ~result1.human_verification_required
            /\ cls \in {"A", "B", "C", "D", "E"}
                  => ~result1.human_verification_required

\* a rental passoire asked for human verification
C18_Witness ==
    /\ Returned
    /\ args.is_rental_property
    /\ result1.is_passoire_thermique
    /\ result1.human_verification_required

\* C19: two calls of calculate_full_dpe_2026 with identical (in-range) inputs
\* return results identical in every field, whenever they are made.
C19_SameInputsSameResult ==
    (epc = "twice" /\ ~OutOfRangeInput(args)) => result1 = result2

(***************************************************************************)
(* C20: the retry schedule                                                 *)
(***************************************************************************)
\* the requests and waits of one call of _fetch_with_retry so far: at most
\* three requests; the k-th wait is the k-th delay of (1, 3, 9); a wait
\* follows a failed attempt only, and each request after the first follows
\* a wait; nothing is waited after the third attempt
RetrySchedule(t) ==
    /\ t.requests <= 3
    /\ Len(t.slept) <= 2
    /\ \A k \in 1..Len(t.slept) : t.slept[k] = <<1, 3, 9>>[k]
    /\ t.pc = "http" => Len(t.slept) = t.requests
    /\ t.pc = "sleep" => (Len(t.slept) = t.requests /\ t.last \in TransportFailures)
    /\ t.pc \in {"cache_set", "done", "raised"} /\ t.requests > 0
          => Len(t.slept) = t.requests - 1

\* an attempt that succeeded is the last request of its call
NoRequestAfterSuccess ==
    \A c \in Callers, s \in Sources :
        task[c][s].last \in {"ok", "no_envelope"}
            => task'[c][s].requests <= task[c][s].requests

\* C20: one call of the resilient fetch issues at most 3 HTTP requests; after
\* the k-th failed attempt it waits the k-th delay of (1s, 3s, 9s) before the
\* next attempt, waits nothing after the final failed attempt, and issues no
\* request once an attempt has succeeded.
C20_RetrySchedule ==
    /\ [](\A c \in Callers, s \in Sources : RetrySchedule(task[c][s]))
    /\ [][NoRequestAfterSuccess]_vars

\* three attempts failed: two waits, of 1s and 3s, and none after the third
C20_Witness ==
    \E c \in Callers, s \in Sources :
        /\ task[c][s].pc = "done"
        /\ task[c][s].via = "failed"
        /\ task[c][s].requests = 3
        /\ task[c][s].slept = <<1, 3>>

(***************************************************************************)
(* C21: what the cache holds                                               *)
(***************************************************************************)
\* C21: with include_exact_addresses = false, no value fetch_dvf_transactions
\* writes to the cache store holds a street number or a street name.
C21_CacheHoldsNoStreetData ==
    ~gdpr_config.include_exact_addresses =>
        \A q \in Queries :
            CacheKey("dvf", q) \in DOMAIN cache =>
                LET records == json_loads(cache[CacheKey("dvf", q)])
                IN  \A i \in 1..Len(records) :
                        /\ records[i].adresse_numero = None
                        /\ records[i].adresse_nom_voie = None

(***************************************************************************)
(* C22: order of cache read, upstream call and cache write                 *)
(***************************************************************************)
\* a fetch that was served from the cache issued no request; a fetch that
\* is about to write the cache holds a response with a valid envelope
HitMeansNoRequest ==
    \A c \in Callers, s \in Sources :
        /\ task[c][s].via = "hit" => task[c][s].requests = 0
        /\ task[c][s].pc = "cache_set" => task[c][s].last = "ok"

\* one step of a fetch: it leaves the cache read for upstream only when the
\* key was absent or the read failed, it returns a hit only for a key that
\* is there, it issues a request only from the retry loop, and the step
\* that ends it in a failure leaves the cache as it was
FetchStepOrder ==
    \A c \in Callers, s \in Sources :
        LET t == task[c][s]
            u == task'[c][s]
            key == CacheKey(s, query[c])
        IN  /\ (t.pc = "cache_get" /\ u.pc = "http")
                  => (key \notin DOMAIN cache \/ u.get_err)
            /\ (t.pc = "cache_get" /\ u.via = "hit") => key \in DOMAIN cache
            /\ u.requests > t.requests => t.pc = "http"
            /\ (t.pc \in {"http", "sleep"}
                    /\ (u.pc = "raised" \/ u.via \in {"failed", "envelope"}))
                  => cache' = cache

\* the cache gains or changes an entry only by the write of a fetch that
\* holds a valid response, and the entry is that response's record list
CacheWrittenOnSuccessOnly ==
    \A key \in DOMAIN cache' :
        (key \notin DOMAIN cache \/ cache'[key] # cache[key]) =>
            \E c \in Callers, s \in Sources :
                /\ task[c][s].pc = "cache_set"
                /\ task[c][s].last = "ok"
                /\ key = CacheKey(s, query[c])
                /\ cache'[key] = json_dumps(task[c][s].records)

\* C22: a fetch calls upstream only after a cache miss for its key and
\* writes the cache only after a successful response with a valid envelope;
\* a cache hit issues no request, and a fetch that fails (transport or
\* envelope) leaves the cache unchanged.
C22_MissThenFetchThenWrite ==
    /\ []HitMeansNoRequest
    /\ [][FetchStepOrder /\ CacheWrittenOnSuccessOnly]_vars

\* one fetch ended on a missing envelope after a single request without
\* writing its key, while the other fetch of the call wrote its own
C22_Witness ==
    \E c \in Callers :
        /\ task[c]["dvf"].pc = "done"
        /\ task[c]["dvf"].via = "envelope"
        /\ CacheKey("dvf", query[c]) \notin DOMAIN cache
        /\ task[c]["dpe"].via = "miss"
        /\ CacheKey("dpe", query[c]) \in DOMAIN cache

(***************************************************************************)
(* C23: two fetches of one key on a cold cache                             *)
(***************************************************************************)
\* a write that Redis accepted replaces whatever the key held
LastWriteWins ==
    \A c \in RaceCallers :
        LET t == task[c]["dvf"]
            u == task'[c]["dvf"]
        IN  (t.pc = "cache_set" /\ u.pc = "done" /\ ~u.set_err)
                => cache'[CacheKey("dvf", query[c])] = json_dumps(t.records)

\* a fetch that missed and got a response has returned the entities of that
\* response, whatever the other fetch did
BothServed ==
    \A c \in RaceCallers :
        task[c]["dvf"].via = "miss" =>
            /\ task[c]["dvf"].pc = "done"
            /\ task[c]["dvf"].requests >= 1
            /\ task[c]["dvf"].result
                  = ParseDVF(gdpr_config, Take(task[c]["dvf"].records, ReconcileLimit))

\* C23: two concurrent fetches with the same key on a cold cache can both
\* miss, both call upstream and both write the cache; the cache then holds
\* the value of the last write and both callers have their result.
C23_BothMissBothWrite ==
    /\ []BothServed
    /\ [][LastWriteWins]_vars

\* both callers missed, both called upstream and both wrote; they got
\* different record lists and the cache holds the list with the new mutation
C23_Witness ==
    /\ \A c \in RaceCallers :
          /\ task[c]["dvf"].via = "miss"
          /\ ~task[c]["dvf"].get_err
          /\ ~task[c]["dvf"].set_err
          /\ task[c]["dvf"].requests >= 1
    /\ task[1]["dvf"].records # task[2]["dvf"].records
    /\ \E c \in RaceCallers :
          /\ task[c]["dvf"].records = UpstreamRecords("dvf", DVFLater, query[c])
          /\ cache[CacheKey("dvf", query[c])] = json_dumps(task[c]["dvf"].records)

(***************************************************************************)
(* C24: the two fetches of a reconcile                                     *)
(***************************************************************************)
\* a fetch that waits for a reply or for its backoff can take its next step
\* whatever the state of the other fetch of the call
FetchNeverBlocked ==
    \A c \in Callers, s \in Sources :
        /\ task[c][s].pc = "cache_get" => ENABLED CacheGet(c, s)
        /\ task[c][s].pc = "http" => ENABLED HttpAttempt(c, s)
        /\ task[c][s].pc = "sleep" => ENABLED Sleep(c, s)
        /\ task[c][s].pc = "cache_set" => ENABLED CacheSet(c, s)

\* the join is built by a step that finds both fetches returned
JoinAfterBoth ==
    \A c \in Callers :
        (pc[c] = "gather" /\ pc'[c] = "done")
            => /\ \A s \in Sources : task[c][s].pc = "done"
               /\ out'[c] = cross_reference(task[c]["dvf"].result,
                                            task[c]["dpe"].result)

\* C24: reconcile starts both fetches so that their steps may interleave
\* (neither waits for the other, a backoff in one does not block the other)
\* and builds the join only after both have completed.
C24_ConcurrentFetchesThenJoin ==
    /\ []FetchNeverBlocked
    /\ [](\A c \in Callers :
            pc[c] = "done" => \A s \in Sources : task[c][s].pc = "done")
    /\ [][JoinAfterBoth]_vars

\* both fetches of one call are under way: the Transactions fetch is in its
\* first backoff while the Diagnostics fetch is past its own and has
\* issued its second request
C24_Witness ==
    \E c \in Callers :
        /\ pc[c] = "gather"
        /\ task[c]["dvf"].pc = "sleep"
        /\ task[c]["dvf"].requests = 1
        /\ task[c]["dpe"].requests = 2
        /\ task[c]["dpe"].pc = "cache_set"

(***************************************************************************)
(* C25: a response without its envelope field                              *)
(***************************************************************************)
\* what the caller of a fetch holds once the fetch has ended
CallerView(t) ==
    [raised |-> t.pc = "raised", exc |-> t.exc, returned |-> t.result]

\* C25: a 2xx response whose body lacks the expected list field is not
\* retried, and the caller gets an outcome it can tell from that of a
\* transport failure.
C25_EnvelopeFailureDistinct ==
    \A c \in Callers, s \in Sources :
        task[c][s].via = "envelope" =>
            /\ task[c][s].pc = "done"
            /\ task[c][s].last = "no_envelope"
            /\ task[c][s].requests = Len(task[c][s].slept) + 1
            /\ \A d \in Callers, r \in Sources :
                  task[d][r].via = "failed"
                      => CallerView(task[c][s]) # CallerView(task[d][r])


(***************************************************************************)
(* C26: records that fail validation                                       *)
(***************************************************************************)
\* the fields the models declare without Optional, as far as the raw
\* record carries them here
RequiredOf(s) ==
    IF s = "dvf"
    THEN {"id_mutation", "date_mutation", "code_postal"}
    ELSE {"N_DPE", "Date_etablissement_DPE", "Classe_consommation_energie",
          "Code_postal_BAN", "Surface_habitable_logement"}

DateOf(s, r) == IF s = "dvf" THEN r.date_mutation ELSE r.Date_etablissement_DPE

\* every required field is there and the date is an ISO date
ValidRecord(s, r) ==
    /\ \A k \in RequiredOf(s) : IsSome(r[k])
    /\ fromisoformat(Get(DateOf(s, r), "")) # 0

\* the entity of one raw record
EntityOf(s, cfg, r) ==
    IF s = "dvf" THEN DVFTransaction(anonymize_address(cfg, r)) ELSE DPEDiagnostic(r)

RECURSIVE EntitiesOfValid(_, _, _)
EntitiesOfValid(s, cfg, records) ==
    IF records = <<>>
    THEN <<>>
    ELSE (IF ValidRecord(s, Head(records))
          THEN <<EntityOf(s, cfg, Head(records))>> ELSE <<>>)
         \o EntitiesOfValid(s, cfg, Tail(records))

\* C26: the fetch of a batch returns the entities of exactly its valid
\* records, in their order: a record with a missing or malformed required
\* field gives no entity, and the fetch does not fail on it.
C26_ExactlyValidRecords ==
    \A c \in Callers, s \in Sources :
        task[c][s].via = "miss" =>
            /\ task[c][s].pc = "done"
            /\ task[c][s].result
                  = EntitiesOfValid(s, gdpr_config,
                                    Take(task[c][s].records, ReconcileLimit))


(***************************************************************************)
(* C27: the Diagnostic chosen among several                                *)
(***************************************************************************)
\* the positions of the Diagnostics of the list that share txn's bucket
MatchingAt(txn, diagnostics) ==
    {i \in 1..Len(diagnostics) :
        /\ diagnostics[i].code_postal = txn.code_postal
        /\ SurfaceBucket(diagnostics[i].surface_habitable)
              = SurfaceBucket(Val(txn.surface_reelle_bati))}

\* C27: the Diagnostic attached to a Transaction has the latest issue date
\* of those in its bucket, and among those with that date it is the one
\* listed first: the choice is a function of the two lists.
C27_MostRecentDiagnostic ==
    \A c \in Callers :
        pc[c] = "done" =>
            \A k \in 1..Len(out[c]) :
                IsSome(out[c][k].dpe) =>
                    LET diags == task[c]["dpe"].result
                        at == MatchingAt(out[c][k].transaction, diags)
                        latest == {i \in at : \A j \in at :
                                      diags[j].date_etablissement_dpe
                                          <= diags[i].date_etablissement_dpe}
                    IN  /\ latest # {}
                        /\ Val(out[c][k].dpe)
                              = diags[CHOOSE i \in latest : \A j \in latest : i <= j]

\* two different Diagnostics of one bucket share the latest date and the one
\* listed first is attached
C27_Witness ==
    \E c \in Callers :
        /\ pc[c] = "done" /\ Len(out[c]) = 1 /\ IsSome(out[c][1].dpe)
        /\ LET diags == task[c]["dpe"].result
           IN  /\ Len(diags) = 2
               /\ MatchingAt(out[c][1].transaction, diags) = {1, 2}
               /\ diags[1].date_etablissement_dpe = diags[2].date_etablissement_dpe
               /\ diags[1] # diags[2]
               /\ Val(out[c][1].dpe) = diags[1]


(***************************************************************************)
(* C28: renovation priorities                                              *)
(***************************************************************************)
\* the list is in rule order: its actions follow the order of the rules
RuleOrder ==
    <<"Isolation thermique", "Remplacement du systeme de chauffage",
      "Chauffe-eau thermodynamique ou solaire", "Remplacement des fenetres",
      "Installation d'une VMC double flux", "Panneaux solaires photovoltaiques">>

InRuleOrder(list) ==
    \A i, j \in 1..Len(list) :
        i < j => \E a, b \in 1..Len(RuleOrder) :
                    a < b /\ list[i] = RuleOrder[a] /\ list[j] = RuleOrder[b]

\* C28: the priorities of every result for in-range inputs are at most 5
\* actions in rule order
\* and contain the renewable-energy action, also when the heating rule, the
\* hot-water rule and the F/G rule all fire.
C28_RenewableAlwaysListed ==
    (Returned /\ ~OutOfRangeInput(args)) =>
        /\ Len(result1.priority_renovations) <= 5
        /\ InRuleOrder(result1.priority_renovations)
        /\ \E i \in 1..Len(result1.priority_renovations) :
              result1.priority_renovations[i] = "Panneaux solaires photovoltaiques"


(***************************************************************************)
(* C29: fetching on a fetcher that is not connected                        *)
(***************************************************************************)
\* a fetch started before connect() ends at once with RuntimeError: no
\* request, no empty list
UnconnectedFetchRaises ==
    \A c \in RaceCallers, s \in Sources :
        (conn = "new" /\ task[c][s].pc = "idle" /\ task'[c][s].pc # "idle")
            => /\ task'[c][s].pc = "raised"
               /\ task'[c][s].exc = "RuntimeError"
               /\ task'[c][s].requests = 0
               /\ task'[c][s].via = ""

\* a request is sent (the coroutine enters session.get) only while connected
RequestOnlyWhileConnected ==
    \A c \in RaceCallers, s \in Sources :
        (task[c][s].pc # "http" /\ task'[c][s].pc = "http") => conn = "connected"

\* C29: a fetch on a fetcher that was never connected raises RuntimeError
\* to its caller instead of returning an empty list, and a fetch sends a
\* request upstream only between connect() and close().
C29_NotConnectedRaises ==
    /\ [][UnconnectedFetchRaises /\ RequestOnlyWhileConnected]_vars
    /\ [](\A c \in RaceCallers, s \in Sources :
             task[c][s].exc = "RuntimeError"
                 => task[c][s].pc = "raised" /\ task[c][s].result = <<>>)

\* one caller's fetch has raised before connect(); after close() the other
\* caller's fetch, which was waiting to retry, has raised on the closed
\* session with one request sent
C29_Witness ==
    /\ conn = "closed"
    /\ task[1]["dvf"].pc = "raised" /\ task[1]["dvf"].exc = "RuntimeError"
    /\ task[1]["dvf"].requests = 0 /\ ~task[1]["dvf"].get_err
    /\ task[2]["dpe"].pc = "raised" /\ task[2]["dpe"].exc = "RuntimeError"
    /\ task[2]["dpe"].requests = 1 /\ task[2]["dpe"].slept = <<1>>


(***************************************************************************)
(* C30: the map of a postal code without diagnostics                       *)
(***************************************************************************)
\* C30: passoire_thermique_map answers for every list the fetch returns;
\* for the empty list the answer has total 0, percentage 0 and a risk level.
C30_MapAnswersEveryList ==
    \A c \in Callers :
        (pc[c] \in {"done", "raised"} /\ task[c]["dpe"].pc = "done") =>
            /\ map_out[c].status = "returned"
            /\ map_out[c].total_properties = Len(task[c]["dpe"].result)
            /\ map_out[c].risk_level \in {"high", "medium", "low"}
            /\ task[c]["dpe"].result = <<>> => map_out[c].passoire_percentage = 0

====
